---------------------------- MODULE Spec2Model ----------------------------
(***************************************************************************)
(* A model of the YouTube subtitle downloader (src/app.py and              *)
(* src/playlist_selector.py).                                              *)
(*                                                                         *)
(* Text (file contents, titles, file names) is a sequence of one-character *)
(* strings, so that the regular expressions of the code are operators that *)
(* scan characters exactly as Python's re module does.                     *)
(*                                                                         *)
(* Specifications:                                                         *)
(*   SpecTxt      convert_srt_to_txt applied once and then to its output   *)
(*   SpecClean    clean_subtitle_text applied once and then to its output  *)
(*   SpecCombine  combine_subtitles, one step per item of subtitle_files   *)
(*   Spec         one run of main(), with download_subtitles in it         *)
(*   SpecTrack    the runs of Spec on a video or playlist, no cookies      *)
(*   SpecHandler  one call of enhanced_playlist_handler                    *)
(***************************************************************************)
EXTENDS Integers, Sequences, FiniteSets

VARIABLES
    \* ---- a text function applied to a document, and again to its result
    step,           \* "in" | "once" | "twice" | "off"
    doc,            \* the content of the input file / the input text
    res,            \* the function's result on doc
    res2,           \* the function's result on res
    \* ---- combine_subtitles
    cpc,            \* "start" | "loop" | "done" | "off"
    cformat,        \* format_choice
    cfiles,         \* subtitle_files: sequence of <<video_title, content of sub_path>>
    cnext,          \* number of items of subtitle_files already written
    cue_index,      \* the running cue counter
    outfile,        \* the content of combined_file written so far
    \* ---- one run of main()
    pc,             \* the position of the run
    url,            \* the url_type of the text in the URL field
    uploaded_file,  \* whether a cookies file is uploaded
    format_choice,  \* "srt" | "vtt" | "txt"
    combine_choice, \* "None" | "separate" | "combined"
    remote,         \* the videos behind the URL: [title, id, catalog] each
    sub_ext,        \* the format in which the remote serves subtitle tracks
    cookies_file,   \* "None" or "tmp": main's variable cookies_file
    tmp_exists,     \* whether the temporary cookies file exists on disk
    is_playlist,    \* main's is_playlist
    total_videos,   \* len(entries) or 1, of the get_info call of main
    info_attempt,   \* attempts made by the running call of get_info
    ds_attempt,     \* attempts made of download_subtitles
    entries,        \* the entries download_subtitles got from get_info
    loop_i,         \* items of entries the loop is done with
    subtitle_files, \* sequence of <<video_title, sub_path>>
    fs,             \* the names of the files in temp_dir
    outcomes,       \* per item of this attempt: what the download and the disk did
    messages,       \* the st.info / st.warning / st.error of this attempt's loop
    progress,       \* the values this attempt passed to progress_bar.progress
    top_messages,   \* the messages of main and of download_subtitles outside the loop
    download,       \* the download button offered: [kind, names]
    \* ---- one call of enhanced_playlist_handler
    hpc,            \* the position of the call
    hurl,           \* the kind of url: "playlist" | "video" | "video_no_v"
    hformat,        \* format_choice
    clean_transcript,
    download_videos,
    listing,        \* the entries the playlist (or the video) has: [title, id]
    fetch_attempt,  \* attempts made of get_playlist_entries
    selected_entries, \* sequence of [id, title]
    h_i,            \* items of selected_entries the loop is done with
    calls,          \* the source calls made: [item, source, ok] in order
    h_files,        \* subtitle_files: the items appended, by position
    video_files,    \* the items whose video was appended, by position
    h_messages,     \* the st.info / st.warning / st.error of the call
    h_progress      \* the values passed to progress_bar.progress

textVars == <<step, doc, res, res2>>
combineVars == <<cpc, cformat, cfiles, cnext, cue_index, outfile>>
inputVars == <<url, uploaded_file, format_choice, combine_choice, remote, sub_ext>>
loopVars == <<entries, loop_i, subtitle_files, fs, outcomes, messages, progress>>
runVars == <<pc, inputVars, cookies_file, tmp_exists, is_playlist, total_videos,
             info_attempt, ds_attempt, loopVars, top_messages, download>>
handlerVars == <<hpc, hurl, hformat, clean_transcript, download_videos, listing,
                 fetch_attempt, selected_entries, h_i, calls, h_files, video_files,
                 h_messages, h_progress>>
vars == <<textVars, combineVars, runVars, handlerVars>>

(***************************************************************************)
(* Bounds of the model.                                                    *)
(***************************************************************************)
MaxLines == 3       \* lines of a document given to convert_srt_to_txt
MaxPieces == 5      \* pieces of a text given to clean_subtitle_text
MaxItems == 3       \* items of subtitle_files given to combine_subtitles
MaxEntries == 2     \* entries of a playlist

(***************************************************************************)
(* Characters and generic sequence helpers.                                *)
(***************************************************************************)
NL == "\n"
Digits == {"0", "1", "2", "3", "4", "5", "6", "7", "8", "9"}
Whitespace == {" ", "\t", NL}

SetMin(S) == CHOOSE x \in S : \A y \in S : x <= y
SetMax(S) == CHOOSE x \in S : \A y \in S : x >= y

SeqsUpTo(S, n) == UNION {[1..k -> S] : k \in 0..n}

RECURSIVE Flatten(_)
Flatten(ss) == IF ss = <<>> THEN <<>> ELSE Head(ss) \o Flatten(Tail(ss))

StartsWithAt(s, i, p) ==
    /\ i + Len(p) - 1 <= Len(s)
    /\ \A j \in 1..Len(p) : s[i + j - 1] = p[j]

\* str.strip(): leading and trailing whitespace removed
Strip(s) ==
    LET keep == {i \in 1..Len(s) : s[i] \notin Whitespace}
    IN  IF keep = {} THEN <<>> ELSE SubSeq(s, SetMin(keep), SetMax(keep))

\* iteration over a text file: the lines, each with its line break
RECURSIVE ReadLines(_)
ReadLines(s) ==
    IF s = <<>> THEN <<>>
    ELSE LET nl == {i \in 1..Len(s) : s[i] = NL}
         IN  IF nl = {} THEN <<s>>
             ELSE <<SubSeq(s, 1, SetMin(nl))>>
                      \o ReadLines(SubSeq(s, SetMin(nl) + 1, Len(s)))

\* s.split(ch)
RECURSIVE SplitOn(_, _)
SplitOn(s, ch) ==
    LET at == {i \in 1..Len(s) : s[i] = ch}
    IN  IF at = {} THEN <<s>>
        ELSE <<SubSeq(s, 1, SetMin(at) - 1)>>
                 \o SplitOn(SubSeq(s, SetMin(at) + 1, Len(s)), ch)

\* content.split('\n')
SplitNL(s) == SplitOn(s, NL)

EndsWith(s, suffix) ==
    /\ Len(suffix) <= Len(s)
    /\ SubSeq(s, Len(s) - Len(suffix) + 1, Len(s)) = suffix

DigitChar(d) ==
    CASE d = 0 -> "0" [] d = 1 -> "1" [] d = 2 -> "2" [] d = 3 -> "3"
      [] d = 4 -> "4" [] d = 5 -> "5" [] d = 6 -> "6" [] d = 7 -> "7"
      [] d = 8 -> "8" [] d = 9 -> "9"

DigitValue(c) ==
    CASE c = "0" -> 0 [] c = "1" -> 1 [] c = "2" -> 2 [] c = "3" -> 3
      [] c = "4" -> 4 [] c = "5" -> 5 [] c = "6" -> 6 [] c = "7" -> 7
      [] c = "8" -> 8 [] c = "9" -> 9

\* f"{n}" for a natural number
RECURSIVE ToDecimal(_)
ToDecimal(n) ==
    IF n < 10 THEN <<DigitChar(n)>>
    ELSE ToDecimal(n \div 10) \o <<DigitChar(n % 10)>>

RECURSIVE FromDecimal(_)
FromDecimal(s) ==
    IF s = <<>> THEN 0
    ELSE 10 * FromDecimal(SubSeq(s, 1, Len(s) - 1)) + DigitValue(s[Len(s)])

(***************************************************************************)
(* The patterns of the code.                                               *)
(***************************************************************************)
\* re.match(r'^\d+$', line.strip())
IsIndexLine(line) ==
    LET t == Strip(line)
    IN  Len(t) > 0 /\ \A i \in 1..Len(t) : t[i] \in Digits

\* r'^\d{2}:\d{2}:\d{2}[,\.]\d{3} --> \d{2}:\d{2}:\d{2}[,\.]\d{3}$':
\* "d" a digit, "p" one of , and . , any other entry the character itself
TimestampShape == <<"d", "d", ":", "d", "d", ":", "d", "d", "p", "d", "d", "d">>
TimingShape == TimestampShape \o <<" ", "-", "-", ">", " ">> \o TimestampShape

ShapeMatches(c, cls) ==
    CASE cls = "d" -> c \in Digits
      [] cls = "p" -> c \in {",", "."}
      [] OTHER -> c = cls

IsTimingLine(line) ==
    LET t == Strip(line)
    IN  /\ Len(t) = Len(TimingShape)
        /\ \A i \in 1..Len(t) : ShapeMatches(t[i], TimingShape[i])

\* r'<[\d:.]+>' at position i
TimeTagAt(s, i) ==
    IF s[i] # "<" THEN 0
    ELSE LET stop == {j \in (i + 1)..Len(s) : s[j] \notin (Digits \cup {":", "."})}
         IN  IF stop = {} THEN 0
             ELSE LET j == SetMin(stop)
                  IN  IF s[j] = ">" /\ j > i + 1 THEN j - i + 1 ELSE 0

\* r'</?X[^>]*>' at position i, X the tag letter
LetterTagAt(s, i, X) ==
    IF s[i] # "<" THEN 0
    ELSE LET a == IF i + 1 <= Len(s) /\ s[i + 1] = "/" THEN i + 2 ELSE i + 1
             close == {j \in (a + 1)..Len(s) : s[j] = ">"}
         IN  IF a <= Len(s) /\ s[a] = X /\ close # {}
             THEN SetMin(close) - i + 1 ELSE 0

CTagAt(s, i) == LetterTagAt(s, i, "c")
VTagAt(s, i) == LetterTagAt(s, i, "v")

Marker == <<"[", "A", "d", "v", "e", "r", "t", "i", "s", "e", "m", "e", "n", "t", "]">>

\* r'\[Advertisement\].*?\n' with re.DOTALL at position i
AdRunAt(s, i) ==
    IF ~StartsWithAt(s, i, Marker) THEN 0
    ELSE LET nl == {j \in (i + Len(Marker))..Len(s) : s[j] = NL}
         IN  IF nl = {} THEN 0 ELSE SetMin(nl) - i + 1

\* r'\n{3,}' at position i
NewlineRunAt(s, i) ==
    IF s[i] # NL THEN 0
    ELSE LET stop == {j \in i..Len(s) : s[j] # NL}
             run == IF stop = {} THEN Len(s) - i + 1 ELSE SetMin(stop) - i
         IN  IF run >= 3 THEN run ELSE 0

\* the length of the match of a pattern of the code starting at s[i] (0: no
\* match)
MatchLen(pattern, s, i) ==
    CASE pattern = "<[\\d:.]+>"                -> TimeTagAt(s, i)
      [] pattern = "</?c[^>]*>"               -> CTagAt(s, i)
      [] pattern = "</?v[^>]*>"               -> VTagAt(s, i)
      [] pattern = "\\[Advertisement\\].*?\\n" -> AdRunAt(s, i)
      [] pattern = "\\n{3,}"                   -> NewlineRunAt(s, i)

\* re.sub(pattern, rep, s) from position i on: scan left to right; matches
\* do not overlap and the replaced text is not scanned again.
RECURSIVE ReSubFrom(_, _, _, _)
ReSubFrom(s, pattern, rep, i) ==
    LET hits == {j \in i..Len(s) : MatchLen(pattern, s, j) > 0}
    IN  IF hits = {} THEN SubSeq(s, i, Len(s))
        ELSE LET j == SetMin(hits)
             IN  SubSeq(s, i, j - 1) \o rep
                     \o ReSubFrom(s, pattern, rep, j + MatchLen(pattern, s, j))

ReSub(s, pattern, rep) == ReSubFrom(s, pattern, rep, 1)

(***************************************************************************)
(* convert_srt_to_txt: the content of txt_path from the content of         *)
(* srt_path.                                                               *)
(***************************************************************************)
TxtLine(line) ==
    IF IsIndexLine(line) \/ IsTimingLine(line) THEN <<>>
    ELSE LET a == ReSub(line, "<[\\d:.]+>", <<>>)
             b == ReSub(a, "</?c[^>]*>", <<>>)
             c == ReSub(b, "</?v[^>]*>", <<>>)
         IN  IF Strip(c) # <<>> THEN Strip(c) \o <<NL>> ELSE <<>>

convert_srt_to_txt(srt) ==
    LET lines == ReadLines(srt)
    IN  Flatten([i \in 1..Len(lines) |-> TxtLine(lines[i])]) \o <<NL>>

(***************************************************************************)
(* clean_subtitle_text                                                     *)
(***************************************************************************)
clean_subtitle_text(text) ==
    ReSub(ReSub(text, "\\[Advertisement\\].*?\\n", <<>>), "\\n{3,}", <<NL, NL>>)

(***************************************************************************)
(* convert_vtt_to_srt: the content of srt_path from the content of         *)
(* vtt_path.                                                               *)
(***************************************************************************)
Note == <<"N", "O", "T", "E">>
Banner == <<"W", "E", "B", "V", "T", "T">>
KindHead == <<"K", "i", "n", "d", ":">>
LanguageHead == <<"L", "a", "n", "g", "u", "a", "g", "e", ":">>

\* r'(\d{2}:\d{2}:\d{2})\.(\d{3})' at position i: 12 when it matches
DotStampAt(s, i) ==
    IF /\ i + 11 <= Len(s)
       /\ \A j \in {0, 1, 3, 4, 6, 7, 9, 10, 11} : s[i + j] \in Digits
       /\ s[i + 2] = ":" /\ s[i + 5] = ":" /\ s[i + 8] = "."
    THEN 12 ELSE 0

CommaStamps_First(line) ==
    LET at == {i \in 1..Len(line) : DotStampAt(line, i) > 0}
    IN  IF at = {} THEN line
        ELSE [j \in 1..Len(line) |-> IF j = SetMin(at) + 8 THEN "," ELSE line[j]]

\* re.sub(r'(\d{2}:\d{2}:\d{2})\.(\d{3})', r'\1,\2', line)
CommaStamps(line) ==
    LET n == Len(line)
        f[i \in 1..(n + 1)] ==
            IF i > n THEN <<>>
            ELSE IF DotStampAt(line, i) > 0
                 THEN SubSeq(line, i, i + 7) \o <<",">> \o SubSeq(line, i + 9, i + 11)
                          \o f[i + 12]
                 ELSE <<line[i]>> \o f[i + 1]
    IN  f[1]

\* line 190: the lines that are not written
IsVttHeader(line) ==
    \/ Strip(line) = Banner
    \/ StartsWithAt(line, 1, KindHead)
    \/ StartsWithAt(line, 1, LanguageHead)

VttLineToSrt(line) == IF IsVttHeader(line) THEN <<>> ELSE CommaStamps(line)

convert_vtt_to_srt(vtt) ==
    LET lines == ReadLines(vtt)
    IN  Flatten([i \in 1..Len(lines) |-> VttLineToSrt(lines[i])])

(***************************************************************************)
(* combine_subtitles: what one pass of the loop over subtitle_files writes *)
(* to combined_file.                                                       *)
(***************************************************************************)
TitleHeader(fmt, video_title) ==
    IF fmt # "txt"
    THEN <<NL, NL, "=", "=", "=", " ">> \o video_title \o <<" ", "=", "=", "=", NL, NL>>
    ELSE <<NL, NL, "#", "#", "#", " ">> \o video_title \o <<" ", "#", "#", "#", NL, NL>>

\* the line written for lines[i] when the counter is idx
WriteLine_Copies(line, idx) == line \o <<NL>>
WriteLine(line, idx) ==
    IF IsIndexLine(line) THEN ToDecimal(idx) \o <<NL>> ELSE line \o <<NL>>

\* the counter after lines[i]
NextIndex(line, idx) == IF IsIndexLine(line) THEN idx + 1 ELSE idx

\* the while loop over lines, from counter idx: <<text written, counter after>>
RECURSIVE RenumberLines(_, _)
RenumberLines(lines, idx) ==
    IF lines = <<>> THEN <<<<>>, idx>>
    ELSE LET rest == RenumberLines(Tail(lines), NextIndex(Head(lines), idx))
         IN  <<WriteLine(Head(lines), idx) \o rest[1], rest[2]>>

(***************************************************************************)
(* Documents the text functions are applied to.                            *)
(***************************************************************************)
Timing == <<"0", "0", ":", "0", "0", ":", "0", "1", ",", "0", "0", "0",
            " ", "-", "-", ">", " ",
            "0", "0", ":", "0", "0", ":", "0", "2", ",", "0", "0", "0">>
TimingVtt == <<"0", "0", ":", "0", "0", ":", "0", "1", ".", "0", "0", "0",
               " ", "-", "-", ">", " ",
               "0", "0", ":", "0", "0", ":", "0", "2", ".", "0", "0", "0">>

\* lines of a markup document: an index, a timing line, text, text in a
\* styling tag, a blank line, text with a timestamp tag, text in a voice tag,
\* a timing line with a cue setting, a NOTE directive, the format banner
TxtLines ==
    { <<"1">>,
      Timing,
      <<"a">>,
      <<"<", "c", ">", "7", "<", "/", "c", ">">>,
      <<>>,
      <<"a", "<", "0", ":", "1", ">", "b">>,
      <<"<", "v", " ", "b", ">", "a", "<", "/", "v", ">">>,
      TimingVtt \o <<" ", "l", ":", "0">>,
      Note,
      Banner }

JoinLines(ls) == Flatten([i \in 1..Len(ls) |-> ls[i] \o <<NL>>])

TxtDocs == {JoinLines(ls) : ls \in SeqsUpTo(TxtLines, MaxLines)}

\* pieces of a text: the marker, the marker cut in two, text, a line break
CleanPieces ==
    { Marker,
      <<"[", "A", "d", "v", "e", "r">>,
      <<"t", "i", "s", "e", "m", "e", "n", "t", "]">>,
      <<"x">>,
      <<NL>> }

CleanTexts == {Flatten(ps) : ps \in SeqsUpTo(CleanPieces, MaxPieces)}

\* items of subtitle_files: <<video_title, content of sub_path>>
CombineItems ==
    { <<<<"A">>, <<"1", NL>> \o Timing \o <<NL, "a", NL, NL>>>>,
      <<<<"B">>, <<"1", NL>> \o Timing \o <<NL, "a", NL, NL,
                   "2", NL>> \o Timing \o <<NL, "7", NL>>>>,
      <<<<"C">>, <<"7", NL>> \o Timing \o <<NL, "b", NL>>>>,
      <<<<"D">>, <<"W", "E", "B", "V", "T", "T", NL, NL>> \o TimingVtt \o <<NL, "a", NL>>>>,
      <<<<"E">>, <<" ", "3", " ", NL, "a", "1">>>>,
      <<<<"4">>, <<>>>> }

(***************************************************************************)
(* The state of the groups a specification does not use.                   *)
(***************************************************************************)
TextOff == step = "off" /\ doc = <<>> /\ res = <<>> /\ res2 = <<>>
CombineIdle ==
    /\ cpc = "off" /\ cformat = "srt" /\ cfiles = <<>>
    /\ cnext = 0 /\ cue_index = 1 /\ outfile = <<>>
RunOff ==
    /\ pc = "off" /\ url = "" /\ uploaded_file = FALSE
    /\ format_choice = "srt" /\ combine_choice = "None"
    /\ remote = <<>> /\ sub_ext = <<>>
    /\ cookies_file = "None" /\ tmp_exists = FALSE /\ is_playlist = FALSE
    /\ total_videos = 1 /\ info_attempt = 0 /\ ds_attempt = 0
    /\ entries = <<>> /\ loop_i = 0 /\ subtitle_files = <<>> /\ fs = {}
    /\ outcomes = <<>> /\ messages = <<>> /\ progress = <<>>
    /\ top_messages = <<>>
    /\ download = [kind |-> "none", names |-> <<>>]
HandlerOff ==
    /\ hpc = "off" /\ hurl = "video" /\ hformat = "srt"
    /\ clean_transcript = FALSE /\ download_videos = FALSE
    /\ listing = <<>> /\ fetch_attempt = 0 /\ selected_entries = <<>> /\ h_i = 0
    /\ calls = <<>> /\ h_files = <<>> /\ video_files = <<>>
    /\ h_messages = <<>> /\ h_progress = <<>>
CombineOff == CombineIdle /\ RunOff /\ HandlerOff

(***************************************************************************)
(* SpecTxt: convert_srt_to_txt on a document, then on its own output.      *)
(***************************************************************************)
InitTxt ==
    /\ step = "in" /\ doc \in TxtDocs /\ res = <<>> /\ res2 = <<>>
    /\ CombineOff

ConvertOnce ==
    /\ step = "in"
    /\ res' = convert_srt_to_txt(doc)
    /\ step' = "once"
    /\ UNCHANGED <<doc, res2, combineVars, runVars, handlerVars>>

ConvertAgain ==
    /\ step = "once"
    /\ res2' = convert_srt_to_txt(res)
    /\ step' = "twice"
    /\ UNCHANGED <<doc, res, combineVars, runVars, handlerVars>>

NextTxt == ConvertOnce \/ ConvertAgain
SpecTxt == InitTxt /\ [][NextTxt]_vars

(***************************************************************************)
(* SpecClean: clean_subtitle_text on a text, then on its own output.       *)
(***************************************************************************)
InitClean ==
    /\ step = "in" /\ doc \in CleanTexts /\ res = <<>> /\ res2 = <<>>
    /\ CombineOff

CleanOnce ==
    /\ step = "in"
    /\ res' = clean_subtitle_text(doc)
    /\ step' = "once"
    /\ UNCHANGED <<doc, res2, combineVars, runVars, handlerVars>>

CleanAgain ==
    /\ step = "once"
    /\ res2' = clean_subtitle_text(res)
    /\ step' = "twice"
    /\ UNCHANGED <<doc, res, combineVars, runVars, handlerVars>>

NextClean == CleanOnce \/ CleanAgain
SpecClean == InitClean /\ [][NextClean]_vars

(***************************************************************************)
(* SpecCleanCues: clean_subtitle_text on a serialized markup document.     *)
(***************************************************************************)
MaxCues == 3

\* the bodies of cues: text, an advertisement, one with the marker in lower
\* case, text
CueBodies ==
    { <<"a">>,
      Marker \o <<"x">>,
      <<"[", "a", "d", "v", "e", "r", "t", "i", "s", "e", "m", "e", "n", "t", "]">> \o <<"x">>,
      <<"b">> }

\* a cue as it is written to an srt file
SerializeCue(index, body) ==
    ToDecimal(index) \o <<NL>> \o Timing \o <<NL>> \o body \o <<NL, NL>>

\* the document of the cues numbered by the set keep, in order
SerializeCues(bodies, keep) ==
    Flatten([k \in 1..Len(bodies) |->
                IF k \in keep THEN SerializeCue(k, bodies[k]) ELSE <<>>])

CueDocs == {SerializeCues(bodies, DOMAIN bodies) : bodies \in SeqsUpTo(CueBodies, MaxCues)}

InitCleanCues ==
    /\ step = "in" /\ doc \in CueDocs /\ res = <<>> /\ res2 = <<>>
    /\ CombineOff

SpecCleanCues == InitCleanCues /\ [][NextClean]_vars

(***************************************************************************)
(* SpecVtt: convert_vtt_to_srt on a document.                              *)
(***************************************************************************)
\* lines of a vtt document: the banner, a Kind: line, a timing line, text,
\* text that starts with a timestamp tag, a blank line
VttLines ==
    { Banner,
      KindHead \o <<"c">>,
      TimingVtt,
      <<"a">>,
      <<"<">> \o SubSeq(TimingVtt, 1, 12) \o <<">", "b">>,
      <<>> }

VttDocs == {JoinLines(ls) : ls \in SeqsUpTo(VttLines, MaxLines)}

InitVtt ==
    /\ step = "in" /\ doc \in VttDocs /\ res = <<>> /\ res2 = <<>>
    /\ CombineOff

ConvertVtt ==
    /\ step = "in"
    /\ res' = convert_vtt_to_srt(doc)
    /\ step' = "once"
    /\ UNCHANGED <<doc, res2, combineVars, runVars, handlerVars>>

NextVtt == ConvertVtt
SpecVtt == InitVtt /\ [][NextVtt]_vars

(***************************************************************************)
(* SpecCombine: combine_subtitles(subtitle_files, ..., format_choice).     *)
(***************************************************************************)
InitCombine ==
    /\ cpc = "start"
    /\ cformat \in {"srt", "vtt", "txt"}
    /\ cfiles \in SeqsUpTo(CombineItems, MaxItems)
    /\ cnext = 0 /\ cue_index = 1 /\ outfile = <<>>
    /\ TextOff /\ RunOff /\ HandlerOff

\* cue_index = 1; open(combined_file, 'w')
CombineOpen ==
    /\ cpc = "start"
    /\ cue_index' = 1
    /\ outfile' = <<>>
    /\ cpc' = "loop"
    /\ UNCHANGED <<cformat, cfiles, cnext, textVars, runVars, handlerVars>>

\* one pass of "for video_title, sub_path in subtitle_files"
CombineItem ==
    /\ cpc = "loop"
    /\ cnext < Len(cfiles)
    /\ LET video_title == cfiles[cnext + 1][1]
           content == cfiles[cnext + 1][2]
           written == RenumberLines(SplitNL(content), cue_index)
       IN  IF cformat \in {"srt", "vtt"}
           THEN /\ outfile' = outfile \o TitleHeader(cformat, video_title) \o written[1]
                /\ cue_index' = written[2]
           ELSE /\ outfile' = outfile \o TitleHeader(cformat, video_title) \o content
                /\ cue_index' = cue_index
    /\ cnext' = cnext + 1
    /\ UNCHANGED <<cpc, cformat, cfiles, textVars, runVars, handlerVars>>

\* return combined_file
CombineReturn ==
    /\ cpc = "loop"
    /\ cnext = Len(cfiles)
    /\ cpc' = "done"
    /\ UNCHANGED <<cformat, cfiles, cnext, cue_index, outfile, textVars, runVars, handlerVars>>

NextCombine == CombineOpen \/ CombineItem \/ CombineReturn
SpecCombine == InitCombine /\ [][NextCombine]_vars

(***************************************************************************)
(* File names in temp_dir.  A name is the path without the temp_dir        *)
(* prefix, which is the same for every file of a run.                      *)
(***************************************************************************)
TitleLimit == 150       \* sanitize_filename(video_title)[:150]
RetryLimit_OneMore == 3 + 1
RetryLimit == 3         \* stop_after_attempt(3)

Srt == <<"s", "r", "t">>
Vtt == <<"v", "t", "t">>
Txt == <<"t", "x", "t">>
ExtOf(fmt) == CASE fmt = "srt" -> Srt [] fmt = "vtt" -> Vtt [] fmt = "txt" -> Txt

\* yt_dlp.utils.sanitize_filename, unrestricted: of the characters the model
\* uses only the double quote is replaced
SanitizeChar(c) == IF c = "\"" THEN "'" ELSE c
sanitize_filename(title) == [k \in 1..Len(title) |-> SanitizeChar(title[k])]

Truncate(s, n) == SubSeq(s, 1, IF Len(s) < n THEN Len(s) ELSE n)

\* base_path = os.path.join(temp_dir, sanitized_title)
BasePath(video_title) == Truncate(sanitize_filename(video_title), TitleLimit)

\* the files ydl.download writes under 'outtmpl': '%(title)s.%(ext)s' for the
\* tracks of catalog ('subtitleslangs': ['all']), ext the subtitle format
\* ('restrict_filenames' is no option of YoutubeDL, so names are unrestricted)
DownloadedFiles(video_title, catalog, ext) ==
    {sanitize_filename(video_title) \o <<".">> \o lang \o <<".">> \o ext : lang \in catalog}

\* glob.glob(f"{base_path}.*.{ext}")
GlobMatches(files, base, ext) ==
    {f \in files : /\ Len(f) >= Len(base) + Len(ext) + 2
                   /\ StartsWithAt(f, 1, base \o <<".">>)
                   /\ EndsWith(f, <<".">> \o ext)}

Auto(ext) == <<"a", "u", "t", "o", ".">> \o ext

\* the list patterns, each without its f"{base_path}.*." head
Patterns(fmt) ==
    <<ExtOf(fmt), Auto(ExtOf(fmt)), Srt, Auto(Srt), Vtt, Auto(Vtt)>>

\* matches[0].split('.')[-2].split('.auto')[0]
SelectedLanguage(path) ==
    LET parts == SplitOn(path, ".")
    IN  IF Len(parts) >= 2 THEN parts[Len(parts) - 1] ELSE <<>>

NoFile == [path |-> <<>>, lang |-> <<>>]

find_subtitle_file_FirstPattern(files, base, fmt) ==
    LET m == GlobMatches(files, base, ExtOf(fmt))
    IN  IF m = {} THEN {[path |-> <<>>, lang |-> <<>>]}
        ELSE {[path |-> f, lang |-> SelectedLanguage(f)] : f \in m}

\* find_subtitle_file(base_path, format_choice): the values it can return.
\* glob.glob lists directory entries in no defined order, so matches[0] is
\* any of the matches of the first pattern that has one.
find_subtitle_file(files, base, fmt) ==
    LET pats == Patterns(fmt)
        hits == {k \in 1..Len(pats) : GlobMatches(files, base, pats[k]) # {}}
    IN  IF hits = {} THEN {NoFile}
        ELSE {[path |-> f, lang |-> SelectedLanguage(f)] :
                 f \in GlobMatches(files, base, pats[SetMin(hits)])}

\* path.rsplit('.', 1)[0] + '.' + ext
ReplaceExt(path, ext) ==
    LET dots == {k \in 1..Len(path) : path[k] = "."}
    IN  (IF dots = {} THEN path ELSE SubSeq(path, 1, SetMax(dots) - 1)) \o <<".">> \o ext

\* lines 323-328: the paths of convert_vtt_to_srt and convert_srt_to_txt
SrtPathOf(path) == IF EndsWith(path, <<".">> \o Vtt) THEN ReplaceExt(path, Srt) ELSE path

ConvertedPath(path, fmt) ==
    CASE fmt = "txt" -> ReplaceExt(SrtPathOf(path), Txt)
      [] fmt = "srt" -> SrtPathOf(path)
      [] OTHER -> path

ConvertedFiles(path, fmt) ==
    CASE fmt = "txt" -> {SrtPathOf(path), ReplaceExt(SrtPathOf(path), Txt)}
      [] fmt = "srt" -> {SrtPathOf(path)}
      [] OTHER -> {}


(***************************************************************************)
(* The inputs of a run: the widgets of the page and the remote videos.     *)
(* A URL that names a video and a playlist resolves, by the Download Scope *)
(* widget, to one of the two kinds below.                                  *)
(***************************************************************************)
Urls == {"", "invalid", "video", "playlist"}
Formats == {"srt", "vtt", "txt"}
Titles == {<<"A">>, <<"B">>}
En == <<"e", "n">>
Tr == <<"t", "r">>
Fr == <<"f", "r">>
Catalogs == {{}, {En}, {En, Tr}}

\* the formats ydl.download can write: 'subtitlesformat' when the remote has
\* it, else the format the remote has (YouTube serves vtt)
DownloadExts(fmt) == IF fmt = "vtt" THEN {Vtt} ELSE {Srt, Vtt}

\* a remote video: its title, whether its entry carries a video id, and the
\* languages of its subtitle tracks
Video == {v \in [title : Titles, id : BOOLEAN, catalog : Catalogs] :
             ~v.id => v.catalog = {}}
Remotes(url_type) ==
    CASE url_type = "video" -> {<<v>> : v \in {x \in Video : x.id}}
      [] url_type = "playlist" -> UNION {[1..n -> Video] : n \in 1..MaxEntries}
      [] OTHER -> {<<>>}

\* url is the url_type validate_url returns for the text of the URL field
\* ("invalid": it raises ValueError; "": the field is empty)
IsPlaylist(url_type, scope) ==
    url_type = "playlist" \/ (url_type = "both" /\ scope = "Entire Playlist")

\* the Output Style widget is shown for a playlist only
CombineChoices(url_type) ==
    IF IsPlaylist(url_type, "Entire Playlist") THEN {"separate", "combined"} ELSE {"None"}

Msg(item, title, level, cause) ==
    [item |-> item, title |-> title, level |-> level, cause |-> cause]
TopMsg(level, cause) == [level |-> level, cause |-> cause]

\* progress_bar.progress(value) raises StreamlitAPIException unless the
\* value lies in [0.0, 1.0]
Fraction(k) == [item |-> k, num |-> k, den |-> total_videos]
ProgressRaises(k) == k > total_videos

\* finally: if cookies_file and os.path.exists(cookies_file): os.unlink(...)
AfterFinally == IF cookies_file = "tmp" THEN FALSE ELSE tmp_exists

(***************************************************************************)
(* Spec: one run of main().                                                *)
(***************************************************************************)
RunStart ==
    /\ pc = "sidebar"
    /\ cookies_file = "None" /\ tmp_exists = FALSE /\ is_playlist = FALSE
    /\ total_videos = 1 /\ info_attempt = 0 /\ ds_attempt = 0
    /\ entries = <<>> /\ loop_i = 0 /\ subtitle_files = <<>> /\ fs = {}
    /\ outcomes = <<>> /\ messages = <<>> /\ progress = <<>>
    /\ top_messages = <<>>
    /\ download = [kind |-> "none", names |-> <<>>]
    /\ TextOff /\ CombineIdle /\ HandlerOff

Init ==
    /\ url \in Urls
    /\ uploaded_file \in BOOLEAN
    /\ format_choice \in Formats
    /\ combine_choice \in CombineChoices(url)
    /\ remote \in Remotes(url)
    /\ sub_ext \in DownloadExts(format_choice)
    /\ RunStart

idle == <<textVars, combineVars, handlerVars>>

\* lines 368-422: the sidebar.  An uploaded cookies file is written to a
\* temporary file that is not deleted on close (delete=False).
Sidebar ==
    /\ pc = "sidebar"
    /\ cookies_file' = IF uploaded_file THEN "tmp" ELSE "None"
    /\ tmp_exists' = uploaded_file
    /\ top_messages' = IF url = "invalid"
                       THEN Append(top_messages, TopMsg("error", "invalid_url"))
                       ELSE top_messages
    /\ pc' = "button"
    /\ UNCHANGED <<inputVars, is_playlist, total_videos, info_attempt,
                   ds_attempt, loopVars, download, idle>>

\* line 424: st.button returns False, the run ends
ButtonNotPressed ==
    /\ pc = "button"
    /\ pc' = "done"
    /\ UNCHANGED <<inputVars, cookies_file, tmp_exists, is_playlist, total_videos,
                   info_attempt, ds_attempt, loopVars, top_messages, download, idle>>

\* lines 425-427: the button is pressed with no URL: st.error, return
PressedNoUrl ==
    /\ pc = "button"
    /\ url = ""
    /\ top_messages' = Append(top_messages, TopMsg("error", "no_url"))
    /\ pc' = "done"
    /\ UNCHANGED <<inputVars, cookies_file, tmp_exists, is_playlist, total_videos,
                   info_attempt, ds_attempt, loopVars, download, idle>>

\* lines 432, 497-498, 504-506: validate_url raises ValueError
PressedInvalidUrl ==
    /\ pc = "button"
    /\ url = "invalid"
    /\ top_messages' = Append(top_messages, TopMsg("error", "invalid_url"))
    /\ tmp_exists' = AfterFinally
    /\ pc' = "done"
    /\ UNCHANGED <<inputVars, cookies_file, is_playlist, total_videos,
                   info_attempt, ds_attempt, loopVars, download, idle>>

\* lines 432-439
PressedValidUrl ==
    /\ pc = "button"
    /\ url \in {"video", "playlist", "both"}
    /\ is_playlist' = IsPlaylist(url, "Entire Playlist")
    /\ top_messages' = Append(top_messages, TopMsg("info", "detected"))
    /\ info_attempt' = 0
    /\ pc' = "main_get_info"
    /\ UNCHANGED <<inputVars, cookies_file, tmp_exists, total_videos,
                   ds_attempt, loopVars, download, idle>>

\* line 441, one attempt of get_info that raises; after the last attempt the
\* error reaches main's except Exception and its finally
MainGetInfoFails ==
    /\ pc = "main_get_info"
    /\ info_attempt < RetryLimit
    /\ info_attempt' = info_attempt + 1
    /\ IF info_attempt + 1 = RetryLimit
       THEN /\ top_messages' = Append(top_messages, TopMsg("error", "error"))
            /\ tmp_exists' = AfterFinally
            /\ pc' = "done"
       ELSE UNCHANGED <<top_messages, tmp_exists, pc>>
    /\ UNCHANGED <<inputVars, cookies_file, is_playlist, total_videos,
                   ds_attempt, loopVars, download, idle>>

\* lines 441-442: get_info returns; a video is one entry, and a playlist with
\* no entry raises.  The playlist may have another length at this call than
\* at the call download_subtitles makes.
MainGetInfoReturns ==
    /\ pc = "main_get_info"
    /\ info_attempt < RetryLimit
    /\ \E n \in (IF is_playlist THEN 1..MaxEntries ELSE {1}) : total_videos' = n
    /\ info_attempt' = 0
    /\ ds_attempt' = 1
    /\ pc' = "ds_get_info"
    /\ UNCHANGED <<inputVars, cookies_file, tmp_exists, is_playlist, loopVars,
                   top_messages, download, idle>>

\* lines 279-290, one attempt of get_info that raises; after the last one
\* download_subtitles reports it and returns (temp_dir, "unknown", [])
DsGetInfoFails ==
    /\ pc = "ds_get_info"
    /\ info_attempt < RetryLimit
    /\ info_attempt' = info_attempt + 1
    /\ IF info_attempt + 1 = RetryLimit
       THEN /\ top_messages' = Append(top_messages, TopMsg("error", "fetch_info"))
            /\ subtitle_files' = <<>>
            /\ pc' = "main_result"
       ELSE UNCHANGED <<top_messages, subtitle_files, pc>>
    /\ UNCHANGED <<inputVars, cookies_file, tmp_exists, is_playlist, total_videos,
                   ds_attempt, entries, loop_i, fs, outcomes, messages, progress,
                   download, idle>>

\* lines 279-281: subtitle_files = []; entries, title = get_info(...)
DsGetInfoReturns ==
    /\ pc = "ds_get_info"
    /\ info_attempt < RetryLimit
    /\ entries' = [k \in 1..Len(remote) |-> [title |-> remote[k].title, id |-> remote[k].id]]
    /\ loop_i' = 0
    /\ subtitle_files' = <<>>
    /\ outcomes' = <<>>
    /\ messages' = <<>>
    /\ progress' = <<>>
    /\ info_attempt' = 0
    /\ pc' = "ds_loop"
    /\ UNCHANGED <<inputVars, cookies_file, tmp_exists, is_playlist, total_videos,
                   ds_attempt, fs, top_messages, download, idle>>

(***************************************************************************)
(* The loop of download_subtitles over entries (lines 292-350): one action *)
(* per path through the body, for the entry at loop_i.                     *)
(***************************************************************************)
ThisEntry == entries[loop_i + 1]

\* line 293 (every entry of the model has a title)
VideoTitle == ThisEntry.title

\* fs after ydl.download([video_url]) returned
Downloaded == fs \cup DownloadedFiles(VideoTitle, remote[loop_i + 1].catalog, sub_ext)

Outcome(kind, files, found) ==
    [kind |-> kind,
     under |-> {f \in files : StartsWithAt(f, 1, BasePath(VideoTitle) \o <<".">>)},
     path |-> found.path, lang |-> found.lang]

\* a path that ends inside the try with st.warning(m), progress, continue
\* (lines 301-303, 316-318): a progress call that raises is caught by the
\* except of line 342, which warns, calls progress again, and that raises
WarnInTry(m) ==
    IF ProgressRaises(loop_i + 1)
    THEN /\ messages' = messages \o <<m, Msg(loop_i + 1, VideoTitle, "warning", "exception")>>
         /\ progress' = progress \o <<Fraction(loop_i + 1), Fraction(loop_i + 1)>>
         /\ pc' = "ds_raised"
         /\ loop_i' = loop_i
    ELSE /\ messages' = Append(messages, m)
         /\ progress' = Append(progress, Fraction(loop_i + 1))
         /\ pc' = pc
         /\ loop_i' = loop_i + 1

\* a path that ends with the progress call of line 347 or 350, outside the try
ThenProgress(ms) ==
    /\ messages' = messages \o ms
    /\ progress' = Append(progress, Fraction(loop_i + 1))
    /\ pc' = IF ProgressRaises(loop_i + 1) THEN "ds_raised" ELSE pc
    /\ loop_i' = IF ProgressRaises(loop_i + 1) THEN loop_i ELSE loop_i + 1

runFrame == <<inputVars, cookies_file, tmp_exists, is_playlist, total_videos,
              info_attempt, ds_attempt, entries, top_messages, download, idle>>

\* lines 296-303: no video id
ItemNoId ==
    /\ pc = "ds_loop" /\ loop_i < Len(entries)
    /\ ~ThisEntry.id
    /\ WarnInTry(Msg(loop_i + 1, VideoTitle, "warning", "no_id"))
    /\ outcomes' = Append(outcomes, Outcome("no_id", fs, NoFile))
    /\ UNCHANGED <<subtitle_files, fs, runFrame>>

\* lines 312-313, 342-348: ydl.download raises (any later statement of the
\* try that raises takes the same handler)
ItemDownloadRaises ==
    /\ pc = "ds_loop" /\ loop_i < Len(entries)
    /\ ThisEntry.id
    /\ \E cause \in {"sign_in", "download_error"} :
          ThenProgress(<<Msg(loop_i + 1, VideoTitle,
                             IF cause = "sign_in" THEN "error" ELSE "warning", cause)>>)
    /\ outcomes' = Append(outcomes, Outcome("raised", fs, NoFile))
    /\ UNCHANGED <<subtitle_files, fs, runFrame>>

\* lines 312-318: the download returns after more than 30 seconds
ItemTimeout ==
    /\ pc = "ds_loop" /\ loop_i < Len(entries)
    /\ ThisEntry.id
    /\ fs' = Downloaded
    /\ outcomes' = Append(outcomes, Outcome("timeout", Downloaded, NoFile))
    /\ WarnInTry(Msg(loop_i + 1, VideoTitle, "warning", "timeout"))
    /\ UNCHANGED <<subtitle_files, runFrame>>

\* lines 312-320, 339-340, 350: find_subtitle_file returns (None, None)
ItemNotFound ==
    /\ pc = "ds_loop" /\ loop_i < Len(entries)
    /\ ThisEntry.id
    /\ NoFile \in find_subtitle_file(Downloaded, BasePath(VideoTitle), format_choice)
    /\ fs' = Downloaded
    /\ outcomes' = Append(outcomes, Outcome("not_found", Downloaded, NoFile))
    /\ ThenProgress(<<Msg(loop_i + 1, VideoTitle, "warning", "no_subtitles")>>)
    /\ UNCHANGED <<subtitle_files, runFrame>>

\* lines 312-338, 350: a file is found, converted to the format, appended
ItemFound ==
    /\ pc = "ds_loop" /\ loop_i < Len(entries)
    /\ ThisEntry.id
    /\ \E found \in find_subtitle_file(Downloaded, BasePath(VideoTitle), format_choice) :
          /\ found # NoFile
          /\ fs' = Downloaded \cup ConvertedFiles(found.path, format_choice)
          /\ subtitle_files' = Append(subtitle_files,
                 <<VideoTitle, ConvertedPath(found.path, format_choice)>>)
          /\ outcomes' = Append(outcomes, Outcome("ok", Downloaded, found))
          /\ ThenProgress(IF found.lang # <<>>
                          THEN <<Msg(loop_i + 1, VideoTitle, "info", "downloaded")>>
                          ELSE <<>>)
    /\ UNCHANGED runFrame

\* line 352: return temp_dir, title, subtitle_files
DsReturn ==
    /\ pc = "ds_loop" /\ loop_i = Len(entries)
    /\ pc' = "main_result"
    /\ UNCHANGED <<inputVars, cookies_file, tmp_exists, is_playlist, total_videos,
                   info_attempt, ds_attempt, loopVars, top_messages, download, idle>>

\* line 260: an exception left download_subtitles and attempts remain: the
\* retry wrapper waits and calls it again; the locals of the failed call are
\* gone, the files in temp_dir stay
DsRetry ==
    /\ pc = "ds_raised"
    /\ ds_attempt < RetryLimit
    /\ ds_attempt' = ds_attempt + 1
    /\ info_attempt' = 0
    /\ entries' = <<>> /\ loop_i' = 0 /\ subtitle_files' = <<>>
    /\ outcomes' = <<>> /\ messages' = <<>> /\ progress' = <<>>
    /\ pc' = "ds_get_info"
    /\ UNCHANGED <<inputVars, cookies_file, tmp_exists, is_playlist, total_videos,
                   fs, top_messages, download, idle>>

\* lines 260, 499-506: the last attempt raised: RetryError reaches main's
\* except Exception and its finally
DsGiveUp ==
    /\ pc = "ds_raised"
    /\ ds_attempt = RetryLimit
    /\ top_messages' = Append(top_messages, TopMsg("error", "error"))
    /\ tmp_exists' = AfterFinally
    /\ pc' = "done"
    /\ UNCHANGED <<inputVars, cookies_file, is_playlist, total_videos, info_attempt,
                   ds_attempt, loopVars, download, idle>>

(***************************************************************************)
(* main after download_subtitles returned (lines 455-506).                 *)
(***************************************************************************)
mainFrame == <<inputVars, cookies_file, is_playlist, total_videos, info_attempt,
               ds_attempt, loopVars, idle>>

\* lines 457-459 and the finally
MainNoSubtitles ==
    /\ pc = "main_result"
    /\ subtitle_files = <<>>
    /\ top_messages' = Append(top_messages, TopMsg("error", "no_subtitles"))
    /\ download' = download
    /\ tmp_exists' = AfterFinally
    /\ pc' = "done"
    /\ UNCHANGED mainFrame

\* lines 461-474 and the finally
MainCombined ==
    /\ pc = "main_result"
    /\ subtitle_files # <<>>
    /\ is_playlist /\ combine_choice = "combined"
    /\ top_messages' = Append(top_messages, TopMsg("success", "downloaded"))
    /\ download' = [kind |-> "combined", names |-> <<>>]
    /\ tmp_exists' = AfterFinally
    /\ pc' = "done"
    /\ UNCHANGED mainFrame

\* lines 461-463, 475-482 and the finally; create_zip writes one entry per
\* item of subtitle_files under os.path.basename(sub_path)
MainZip ==
    /\ pc = "main_result"
    /\ subtitle_files # <<>>
    /\ is_playlist /\ combine_choice = "separate"
    /\ top_messages' = Append(top_messages, TopMsg("success", "downloaded"))
    /\ download' = [kind |-> "zip",
                    names |-> [k \in 1..Len(subtitle_files) |-> subtitle_files[k][2]]]
    /\ tmp_exists' = AfterFinally
    /\ pc' = "done"
    /\ UNCHANGED mainFrame

\* lines 461-463, 483-493 and the finally
MainSingle ==
    /\ pc = "main_result"
    /\ subtitle_files # <<>>
    /\ ~(is_playlist /\ combine_choice \in {"combined", "separate"})
    /\ top_messages' = Append(top_messages, TopMsg("success", "downloaded"))
    /\ download' = [kind |-> "single", names |-> <<subtitle_files[1][2]>>]
    /\ tmp_exists' = AfterFinally
    /\ pc' = "done"
    /\ UNCHANGED mainFrame

Next ==
    \/ Sidebar \/ ButtonNotPressed \/ PressedNoUrl \/ PressedInvalidUrl
    \/ PressedValidUrl \/ MainGetInfoFails \/ MainGetInfoReturns
    \/ DsGetInfoFails \/ DsGetInfoReturns
    \/ ItemNoId \/ ItemDownloadRaises \/ ItemTimeout \/ ItemNotFound \/ ItemFound
    \/ DsReturn \/ DsRetry \/ DsGiveUp
    \/ MainNoSubtitles \/ MainCombined \/ MainZip \/ MainSingle

Spec == Init /\ [][Next]_vars

(***************************************************************************)
(* SpecTrack: the runs of main() on a video or playlist URL with no        *)
(* cookies file, a playlist packed as separate files, every entry of which *)
(* carries its video id (so the step for an entry without id never runs)   *)
(* and has either no subtitle track or the two tracks "en" and "tr".       *)
(***************************************************************************)
InitTrack ==
    /\ url \in {"video", "playlist"}
    /\ uploaded_file = FALSE
    /\ format_choice \in Formats
    /\ combine_choice = IF url = "playlist" THEN "separate" ELSE "None"
    /\ remote \in {r \in Remotes(url) :
                     \A k \in DOMAIN r : r[k].id /\ r[k].catalog \in {{}, {En, Tr}}}
    /\ sub_ext \in DownloadExts(format_choice)
    /\ RunStart

NextTrack ==
    \/ Sidebar \/ ButtonNotPressed \/ PressedValidUrl
    \/ MainGetInfoFails \/ MainGetInfoReturns
    \/ DsGetInfoFails \/ DsGetInfoReturns
    \/ ItemDownloadRaises \/ ItemTimeout \/ ItemNotFound \/ ItemFound
    \/ DsReturn \/ DsRetry \/ DsGiveUp
    \/ MainNoSubtitles \/ MainZip \/ MainSingle

SpecTrack == InitTrack /\ [][NextTrack]_vars

(***************************************************************************)
(* SpecHandler: one call of enhanced_playlist_handler                      *)
(* (src/playlist_selector.py).  get_transcript_api and                     *)
(* get_subtitles_yt_dlp are the functions the caller passes in: each call  *)
(* of one returns or raises.                                               *)
(***************************************************************************)
FetchRetryLimit == 3        \* stop_after_attempt(3) of get_playlist_entries

HUrls == {"playlist", "video", "video_no_v"}

\* what the remote lists for the url: the entries of a playlist, with or
\* without an id, or the one video
Listings(u) ==
    CASE u = "playlist" ->
             UNION {[1..n -> [title : Titles, id : BOOLEAN]] : n \in 0..MaxEntries}
      [] u = "video" -> {<<[title |-> t, id |-> TRUE]>> : t \in Titles}
      [] OTHER -> {<<>>}

\* get_playlist_entries: list(zip(video_ids, titles)) of the entries with an
\* id; the id of an entry is its position in the playlist
RECURSIVE WithId(_, _)
WithId(list, k) ==
    IF k > Len(list) THEN <<>>
    ELSE (IF list[k].id THEN <<[id |-> k, title |-> list[k].title]>> ELSE <<>>)
             \o WithId(list, k + 1)

\* titles.index(t)
IndexOf(titles, t) == SetMin({k \in DOMAIN titles : titles[k] = t})

\* the values st.multiselect(..., titles, default = titles) can return: the
\* default, nothing, or one of the titles
Selections(titles) ==
    {titles, <<>>} \cup {<<titles[k]>> : k \in DOMAIN titles}

\* the except clause of lines 134-137: the secondary source is called when,
\* and only when, the primary call raised
NeedsSecondary_Always(primary_ok) == TRUE
NeedsSecondary(primary_ok) == ~primary_ok

Call(item, source, ok) == [item |-> item, source |-> source, ok |-> ok]
HFraction(k) == [item |-> k, num |-> k, den |-> Len(selected_entries)]
HTitle == selected_entries[h_i + 1].title

InitHandler ==
    /\ hpc = "fetch"
    /\ hurl \in HUrls
    /\ hformat \in Formats
    /\ clean_transcript \in BOOLEAN
    /\ download_videos \in BOOLEAN
    /\ listing \in Listings(hurl)
    /\ fetch_attempt = 0 /\ selected_entries = <<>> /\ h_i = 0
    /\ calls = <<>> /\ h_files = <<>> /\ video_files = <<>>
    /\ h_messages = <<>> /\ h_progress = <<>>
    /\ TextOff /\ CombineIdle /\ RunOff

handlerIdle == <<textVars, combineVars, runVars>>
handlerInputs == <<hurl, hformat, clean_transcript, download_videos, listing>>

\* line 95: an attempt of get_playlist_entries raises; the third one ends the
\* call of the handler with RetryError
HFetchFails ==
    /\ hpc = "fetch" /\ hurl = "playlist"
    /\ fetch_attempt < FetchRetryLimit
    /\ fetch_attempt' = fetch_attempt + 1
    /\ hpc' = IF fetch_attempt' = FetchRetryLimit THEN "raised" ELSE "fetch"
    /\ UNCHANGED <<handlerInputs, selected_entries, h_i, calls, h_files, video_files,
                   h_messages, h_progress, handlerIdle>>

\* lines 94-110, 124-127: the playlist is listed and the videos selected
HFetchPlaylist ==
    /\ hpc = "fetch" /\ hurl = "playlist"
    /\ fetch_attempt < FetchRetryLimit
    /\ fetch_attempt' = fetch_attempt + 1
    /\ LET found == WithId(listing, 1)
           titles == [k \in DOMAIN found |-> found[k].title]
       IN  IF found = <<>>
           THEN /\ h_messages' = Append(h_messages, Msg(0, <<>>, "error", "no_videos"))
                /\ hpc' = "returned"
                /\ UNCHANGED <<selected_entries, h_progress>>
           ELSE \E selected_titles \in Selections(titles) :
                   IF selected_titles = <<>>
                   THEN /\ h_messages' = Append(h_messages, Msg(0, <<>>, "warning", "no_selection"))
                        /\ hpc' = "returned"
                        /\ UNCHANGED <<selected_entries, h_progress>>
                   ELSE /\ selected_entries' = [k \in DOMAIN selected_titles |->
                                                  found[IndexOf(titles, selected_titles[k])]]
                        /\ h_messages' = Append(h_messages, Msg(0, <<>>, "success", "selected"))
                        /\ h_progress' = <<[item |-> 0, num |-> 0, den |-> 1]>>
                        /\ hpc' = "loop"
    /\ UNCHANGED <<handlerInputs, h_i, calls, h_files, video_files, handlerIdle>>

\* lines 113-116: the url of a single video has no v parameter
HSingleNoId ==
    /\ hpc = "fetch" /\ hurl = "video_no_v"
    /\ h_messages' = Append(h_messages, Msg(0, <<>>, "error", "invalid_url"))
    /\ hpc' = "returned"
    /\ UNCHANGED <<handlerInputs, fetch_attempt, selected_entries, h_i, calls, h_files,
                   video_files, h_progress, handlerIdle>>

\* lines 117-127: extract_info of the single video returns
HSingleInfo ==
    /\ hpc = "fetch" /\ hurl = "video"
    /\ selected_entries' = <<[id |-> 1, title |-> listing[1].title]>>
    /\ h_progress' = <<[item |-> 0, num |-> 0, den |-> 1]>>
    /\ hpc' = "loop"
    /\ UNCHANGED <<handlerInputs, fetch_attempt, h_i, calls, h_files, video_files,
                   h_messages, handlerIdle>>

\* line 118: extract_info raises, and the handler with it
HSingleInfoRaises ==
    /\ hpc = "fetch" /\ hurl = "video"
    /\ hpc' = "raised"
    /\ UNCHANGED <<handlerInputs, fetch_attempt, selected_entries, h_i, calls, h_files,
                   video_files, h_messages, h_progress, handlerIdle>>

\* the end of a pass of the loop: messages ms, then line 155
HNextItem(ms) ==
    /\ h_messages' = h_messages \o ms
    /\ h_progress' = Append(h_progress, HFraction(h_i + 1))
    /\ h_i' = h_i + 1
    /\ hpc' = "loop"

handlerFrame == <<handlerInputs, fetch_attempt, selected_entries, handlerIdle>>

\* lines 134-135: get_transcript_api(vid_id, ...) returns or raises
HPrimary ==
    /\ hpc = "loop" /\ h_i < Len(selected_entries)
    /\ \E ok \in BOOLEAN :
          /\ calls' = Append(calls, Call(h_i + 1, "primary", ok))
          /\ hpc' = IF NeedsSecondary(ok) THEN "secondary" ELSE "have_text"
    /\ UNCHANGED <<h_i, h_files, video_files, h_messages, h_progress, handlerFrame>>

\* lines 136-137: get_subtitles_yt_dlp(vid_url, ...) returns
HSecondaryReturns ==
    /\ hpc = "secondary"
    /\ calls' = Append(calls, Call(h_i + 1, "secondary", TRUE))
    /\ hpc' = "have_text"
    /\ UNCHANGED <<h_i, h_files, video_files, h_messages, h_progress, handlerFrame>>

\* lines 136-137, 152-155: get_subtitles_yt_dlp raises
HSecondaryRaises ==
    /\ hpc = "secondary"
    /\ calls' = Append(calls, Call(h_i + 1, "secondary", FALSE))
    /\ HNextItem(<<Msg(h_i + 1, HTitle, "warning", "source_error")>>)
    /\ UNCHANGED <<h_files, video_files, handlerFrame>>

\* lines 138-141, 152-155: clean_subtitle_text and convert_srt_to_txt are no
\* names of the module playlist_selector, so the line that uses one raises
\* NameError
HNameError ==
    /\ hpc = "have_text"
    /\ clean_transcript \/ hformat = "txt"
    /\ HNextItem(<<Msg(h_i + 1, HTitle, "warning", "name_error")>>)
    /\ UNCHANGED <<calls, h_files, video_files, handlerFrame>>

\* lines 142, 149-150, 155: the text is appended, no video asked for
HAppend ==
    /\ hpc = "have_text"
    /\ ~clean_transcript /\ hformat # "txt"
    /\ ~download_videos
    /\ h_files' = Append(h_files, h_i + 1)
    /\ HNextItem(<<Msg(h_i + 1, HTitle, "info", "downloaded")>>)
    /\ UNCHANGED <<calls, video_files, handlerFrame>>

\* lines 142, 145-148, 152-155: the text is appended, then the video is
\* downloaded, or download_video_with_quality raises ValueError
HAppendWithVideo ==
    /\ hpc = "have_text"
    /\ ~clean_transcript /\ hformat # "txt"
    /\ download_videos
    /\ h_files' = Append(h_files, h_i + 1)
    /\ \E video_ok \in BOOLEAN :
          IF video_ok
          THEN /\ video_files' = Append(video_files, h_i + 1)
               /\ HNextItem(<<Msg(h_i + 1, HTitle, "info", "downloaded_video")>>)
          ELSE /\ video_files' = video_files
               /\ HNextItem(<<Msg(h_i + 1, HTitle, "warning", "video_error")>>)
    /\ UNCHANGED <<calls, handlerFrame>>

\* lines 157-160
HReturn ==
    /\ hpc = "loop" /\ h_i = Len(selected_entries)
    /\ h_messages' = IF h_files = <<>>
                     THEN Append(h_messages, Msg(0, <<>>, "error", "no_files"))
                     ELSE h_messages
    /\ hpc' = "returned"
    /\ UNCHANGED <<h_i, calls, h_files, video_files, h_progress, handlerFrame>>

NextHandler ==
    \/ HFetchFails \/ HFetchPlaylist \/ HSingleNoId \/ HSingleInfo \/ HSingleInfoRaises
    \/ HPrimary \/ HSecondaryReturns \/ HSecondaryRaises
    \/ HNameError \/ HAppend \/ HAppendWithVideo \/ HReturn

SpecHandler == InitHandler /\ [][NextHandler]_vars

(***************************************************************************)
(* SpecRetry: one run of main() as in SpecTrack for the format srt served  *)
(* as srt, or one call of enhanced_playlist_handler.  The script is one    *)
(* sequential program: a                                                   *)
(* step that can be taken is taken (every remote call returns or raises,   *)
(* and the waits between attempts are bounded), hence the weak fairness.   *)
(***************************************************************************)
InitRetry ==
    \/ InitTrack /\ format_choice = "srt" /\ sub_ext = Srt
    \/ InitHandler
NextRetry == NextTrack \/ NextHandler
SpecRetry == InitRetry /\ [][NextRetry]_vars /\ WF_vars(NextRetry)

(***************************************************************************)
(* Properties of enhanced_playlist_handler.                                *)
(***************************************************************************)
CallsOf(item, source) ==
    {j \in DOMAIN calls : calls[j].item = item /\ calls[j].source = source}

\* C4: for each item of enhanced_playlist_handler the primary source is
\* called once; when that call fails the secondary source is called exactly
\* once, after it, and the primary source is not called again; when it
\* succeeds the secondary source is not called for the item.
C4_SecondaryOnceAfterFailure ==
    \A item \in DOMAIN selected_entries :
       LET p == CallsOf(item, "primary")
           s == CallsOf(item, "secondary")
       IN  /\ Cardinality(p) <= 1
           /\ item <= h_i => Cardinality(p) = 1
           /\ p = {} => s = {}
           /\ \A j \in p :
                 IF calls[j].ok THEN s = {}
                 ELSE /\ Cardinality(s) <= 1
                      /\ item <= h_i => Cardinality(s) = 1
                      /\ \A m \in s : m > j

\* a call has returned with one item served by the secondary source after
\* its primary call failed, and one served by the primary source
C4_Witness ==
    /\ hpc = "returned"
    /\ \E item \in DOMAIN selected_entries :
          /\ \E j \in CallsOf(item, "primary") : ~calls[j].ok
          /\ Cardinality(CallsOf(item, "secondary")) = 1
    /\ \E item \in DOMAIN selected_entries :
          /\ \E j \in CallsOf(item, "primary") : calls[j].ok
          /\ CallsOf(item, "secondary") = {}

(***************************************************************************)
(* Properties of a run.                                                    *)
(***************************************************************************)
Done == 1..Len(outcomes)            \* the items this attempt is done with
FailureKinds == {"no_id", "raised", "timeout", "not_found"}

\* the titles of the items that succeeded, in the order of entries
RECURSIVE SucceededFrom(_)
SucceededFrom(k) ==
    IF k > Len(outcomes) THEN <<>>
    ELSE (IF outcomes[k].kind = "ok" THEN <<entries[k].title>> ELSE <<>>)
             \o SucceededFrom(k + 1)

\* C2: a failure of one item (no id, timeout, no subtitle file, an exception
\* of the download) never aborts the batch: the later items are processed,
\* and the subtitle_files returned are exactly the items that succeeded, in
\* the order of the batch.
C2_FailureNeverAborts ==
    /\ pc = "ds_raised" => outcomes[Len(outcomes)].kind \notin FailureKinds
    /\ pc = "main_result" =>
          /\ Len(outcomes) = Len(entries)
          /\ [k \in DOMAIN subtitle_files |-> subtitle_files[k][1]] = SucceededFrom(1)

\* C3: a cookies file main wrote to a temporary file is deleted when the run
\* of main ends, on every exit path.
C3_CookiesDeleted == pc = "done" => ~tmp_exists

\* C7: the progress callback is invoked exactly once per item the loop is
\* done with, and every fraction passed to it lies in [0, 1].
C7_ProgressOncePerItem ==
    /\ \A k \in Done : Cardinality({j \in DOMAIN progress : progress[j].item = k}) = 1
    /\ \A j \in DOMAIN progress : 0 <= progress[j].num /\ progress[j].num <= progress[j].den

\* the causes a message can name for each way an item fails
CausesOf(kind) ==
    CASE kind = "no_id"     -> {"no_id"}
      [] kind = "raised"    -> {"sign_in", "download_error"}
      [] kind = "timeout"   -> {"timeout"}
      [] kind = "not_found" -> {"no_subtitles"}
      [] OTHER              -> {}

\* C8: each item that failed has exactly one warning or error message, which
\* names its title and the cause, and an item that succeeded has none.
C8_OneMessagePerFailure ==
    \A k \in Done :
       LET about == {j \in DOMAIN messages :
                        messages[j].item = k /\ messages[j].level \in {"warning", "error"}}
       IN  IF outcomes[k].kind = "ok" THEN about = {}
           ELSE /\ Cardinality(about) = 1
                /\ \A j \in about : /\ messages[j].title = entries[k].title
                                    /\ messages[j].cause \in CausesOf(outcomes[k].kind)

\* C9: when the run ends after a batch with no successful item, one top-level
\* failure is reported and no download is offered; a batch with a successful
\* item yields a download.
FinalFailure(m) == m.level = "error" /\ m.cause \in {"no_subtitles", "error"}
C9_FailureOrResult ==
    (pc = "done" /\ ds_attempt >= 1) =>
        IF \E k \in Done : outcomes[k].kind = "ok"
        THEN download.kind # "none"
        ELSE /\ download.kind = "none"
             /\ Cardinality({j \in DOMAIN top_messages : FinalFailure(top_messages[j])}) = 1

(***************************************************************************)
(* Track selection.                                                        *)
(***************************************************************************)
\* the requests of languages, in order of preference
Requests == {<<Tr, En>>, <<En>>, <<Fr>>}

\* what following request r selects from an automatic "en" track and a
\* manual "tr" track: the first requested language the catalog has, and no
\* track when it has none of them
Follows(r, o) ==
    CASE r = <<Tr, En>> -> o.kind = "ok" /\ o.lang = Tr
      [] r = <<En>>     -> o.kind = "ok" /\ o.lang = En
      [] OTHER          -> o.kind = "not_found"

Searched(k) == outcomes[k].kind \in {"ok", "not_found"}

IndexLines == SelectSeq(SplitNL(outfile), IsIndexLine)

\* C1: for srt and vtt the index lines of the combined file are, top to
\* bottom, 1, 2, ..., N, whatever indices the items carry, and the counter
\* is N + 1.
C1_ContiguousIndices ==
    cformat \in {"srt", "vtt"} =>
        /\ \A k \in DOMAIN IndexLines : IndexLines[k] = ToDecimal(k)
        /\ cue_index = Len(IndexLines) + 1

\* three or more items, each a single cue indexed "1", were combined
C1_Witness ==
    /\ cpc = "done" /\ cformat = "srt"
    /\ Len(cfiles) >= 3
    /\ \A k \in DOMAIN cfiles : SelectSeq(SplitNL(cfiles[k][2]), IsIndexLine) = <<<<"1">>>>
    /\ Len(IndexLines) = Len(cfiles)

\* C5: convert_srt_to_txt applied to its own output returns that output.
C5_ConvertIdempotent == step = "twice" => res2 = res

\* C6: clean_subtitle_text applied to its own output returns that output.
C6_CleanIdempotent == (step = "twice" /\ doc \in CleanTexts) => res2 = res

\* C11: convert_vtt_to_srt writes as many lines as it reads; a cue timing
\* line differs from its input only in "," for "." and every other line is
\* written unchanged, in the same order.
C11_OnlyTimingSeparators ==
    step = "once" =>
        LET old == ReadLines(doc)
            new == ReadLines(res)
        IN  /\ Len(new) = Len(old)
            /\ \A k \in DOMAIN old :
                  IF IsTimingLine(old[k])
                  THEN /\ Len(new[k]) = Len(old[k])
                       /\ \A j \in DOMAIN old[k] :
                             \/ new[k][j] = old[k][j]
                             \/ old[k][j] = "." /\ new[k][j] = ","
                  ELSE new[k] = old[k]

\* the lines of the input that convert_vtt_to_srt keeps
KeptVttLines == SelectSeq(ReadLines(doc), LAMBDA l : ~IsVttHeader(l))

\* position j of line is the "." between the seconds and the milliseconds
\* of a timestamp
IsStampDot(line, j) == j > 8 /\ DotStampAt(line, j - 8) > 0

\* C11 amended: convert_vtt_to_srt drops the banner line and the lines that
\* start with Kind: or Language:, and writes every other line in order; a
\* written line differs from the line read only in "," for the "." of a
\* timestamp, on timing lines and in cue text or inline tags alike, and a
\* timing line is written with no "." left.
C11_HeadersDroppedStampsRewritten ==
    step = "once" =>
        LET old == KeptVttLines
            new == ReadLines(res)
        IN  /\ Len(new) = Len(old)
            /\ \A k \in DOMAIN old :
                  /\ Len(new[k]) = Len(old[k])
                  /\ \A j \in DOMAIN old[k] :
                        \/ new[k][j] = old[k][j]
                        \/ IsStampDot(old[k], j) /\ new[k][j] = ","
                  /\ IsTimingLine(old[k]) => \A j \in DOMAIN new[k] : new[k][j] # "."

\* a document with a header line, a timing line and a timestamp tag in cue
\* text was converted
C11_Witness ==
    /\ step = "once"
    /\ \E k \in DOMAIN ReadLines(doc) : IsVttHeader(ReadLines(doc)[k])
    /\ \E k \in DOMAIN KeptVttLines :
          IsTimingLine(KeptVttLines[k]) /\ ReadLines(res)[k] # KeptVttLines[k]
    /\ \E k \in DOMAIN KeptVttLines :
          ~IsTimingLine(KeptVttLines[k]) /\ ReadLines(res)[k] # KeptVttLines[k]

\* a cue timing line, with or without cue settings after the end timestamp
IsCueTimingLine(line) ==
    LET t == Strip(line)
        n == Len(TimingShape)
    IN  /\ Len(t) >= n
        /\ \A i \in 1..n : ShapeMatches(t[i], TimingShape[i])
        /\ Len(t) > n => t[n + 1] = " "

HasInlineTag(line) ==
    \E i \in DOMAIN line :
       TimeTagAt(line, i) > 0 \/ CTagAt(line, i) > 0 \/ VTagAt(line, i) > 0

\* C12: no line of the output of convert_srt_to_txt is a cue index line, a
\* cue timing line (with or without cue settings), a bare NOTE directive or
\* the format banner, and no line of it contains a timestamp tag, a voice
\* tag or a styling tag.
C12_NoMarkupLeft ==
    (step = "once" /\ doc \in TxtDocs) =>
        \A k \in DOMAIN SplitNL(res) :
           LET line == SplitNL(res)[k]
           IN  /\ ~IsIndexLine(line)
               /\ ~IsCueTimingLine(line)
               /\ Strip(line) \notin {Note, Banner}
               /\ ~HasInlineTag(line)

\* the advertisement marker, matched without regard to case
Lower(c) == IF c = "A" THEN "a" ELSE c
IsAdBody(body) ==
    \E i \in DOMAIN body :
       /\ i + Len(Marker) - 1 <= Len(body)
       /\ \A j \in 1..Len(Marker) : Lower(body[i + j - 1]) = Lower(Marker[j])

NonBlank(lines) == SelectSeq(lines, LAMBDA l : Strip(l) # <<>>)

\* C13: clean_subtitle_text removes the advertisement cues, matched without
\* regard to case, each as a whole block of index line, timing line and
\* body, and leaves the lines of every other cue as they are.
C13_WholeAdBlocksOnly ==
    step = "once" =>
        \A bodies \in SeqsUpTo(CueBodies, MaxCues) :
           doc = SerializeCues(bodies, DOMAIN bodies) =>
               NonBlank(SplitNL(res)) =
                   NonBlank(SplitNL(SerializeCues(bodies,
                       {k \in DOMAIN bodies : ~IsAdBody(bodies[k])})))

\* C14: the archive of create_zip has one entry per item of subtitle_files,
\* each under a name of its own that starts with the item's sanitized,
\* truncated title.
C14_DistinctZipNames ==
    (pc = "done" /\ download.kind = "zip") =>
        /\ Len(download.names) = Len(subtitle_files)
        /\ \A k \in DOMAIN download.names :
              StartsWithAt(download.names[k], 1, BasePath(subtitle_files[k][1]) \o <<".">>)
        /\ \A j, k \in DOMAIN download.names :
              j # k => download.names[j] # download.names[k]

\* the run of main, or the call of the handler, has ended
Terminated ==
    \/ pc = "done"
    \/ hpc \in {"returned", "raised"}

\* C15: a call of get_info, download_subtitles or get_playlist_entries is
\* attempted at most 3 times, a call that has used its 3 attempts is not
\* attempted again, the third failure ends the call with an error (an error
\* message in main, the exception for the handler's caller), and every run
\* reaches its end.
C15_BoundedRetriesTerminate ==
    /\ [](info_attempt <= 3 /\ ds_attempt <= 3 /\ fetch_attempt <= 3)
    /\ [][/\ info_attempt = 3 => info_attempt' = 3
          /\ ds_attempt = 3 => ds_attempt' = 3
          /\ fetch_attempt = 3 => fetch_attempt' = 3
          /\ (info_attempt = 2 /\ info_attempt' = 3) =>
                /\ Len(top_messages') = Len(top_messages) + 1
                /\ top_messages'[Len(top_messages')].level = "error"
                /\ pc' \in {"done", "main_result"}
          /\ (pc = "ds_raised" /\ ds_attempt = 3) =>
                /\ top_messages' = Append(top_messages, TopMsg("error", "error"))
                /\ pc' = "done"
          /\ (fetch_attempt = 2 /\ fetch_attempt' = 3) =>
                /\ hpc' # "fetch"
                /\ h_messages' = h_messages => hpc' = "raised"]_vars
    /\ <>Terminated

\* download_subtitles raised in each of its 3 attempts and the run ended with
\* the error
C15_Witness ==
    /\ pc = "done"
    /\ ds_attempt = 3
    /\ download.kind = "none"
    /\ top_messages[Len(top_messages)] = TopMsg("error", "error")

\* lines[i] is the index of a cue: a number on the line before a timing line
IsCueIndexAt(lines, i) ==
    /\ i < Len(lines)
    /\ IsIndexLine(lines[i])
    /\ IsTimingLine(lines[i + 1])

\* the lines of a text that ends with a line break
LinesOf(text) == LET ls == SplitNL(text) IN SubSeq(ls, 1, Len(ls) - 1)

\* the lines combine_subtitles reads or makes for item k, top to bottom, each
\* with whether it is the index of a cue
SourceLines(k) ==
    LET head == LinesOf(TitleHeader(cformat, cfiles[k][1]))
        body == SplitNL(cfiles[k][2])
    IN  [j \in 1..Len(head) |-> [line |-> head[j], cue |-> FALSE]]
        \o [j \in 1..Len(body) |-> [line |-> body[j], cue |-> IsCueIndexAt(body, j)]]

\* C16: for srt and vtt every line that is not the index of a cue, a body
\* line of digits included, is in the combined file as it was read, in
\* order, and as many lines were renumbered as the items have cues; for txt
\* each item is copied as it is.
C16_OnlyCueIndicesChange ==
    LET source == Flatten([k \in 1..cnext |-> SourceLines(k)])
        written == LinesOf(outfile)
    IN  IF cformat \in {"srt", "vtt"}
        THEN /\ Len(written) = Len(source)
             /\ \A j \in DOMAIN source :
                   ~source[j].cue => written[j] = source[j].line
             /\ cue_index - 1 = Cardinality({j \in DOMAIN source : source[j].cue})
        ELSE outfile = Flatten([k \in 1..cnext |->
                           TitleHeader(cformat, cfiles[k][1]) \o cfiles[k][2]])

====
